---- MODULE Spec2Model ----
(***************************************************************************)
(* Keypath operations of rust-prelude-plus: one operation request is       *)
(* executed by one of the execution strategies (sequential functions,      *)
(* the rayon-based parallel functions, the stream-based async functions).  *)
(*                                                                         *)
(* A parallel call is a tree of tasks over index ranges of the slice: a    *)
(* task that has not started may be split in two halves (rayon's adaptive  *)
(* splitting), leaves consume their items one at a time in any             *)
(* interleaving, and finished siblings are joined by the consumer's        *)
(* reducer.  A panic inside a closure unwinds through the joins to the     *)
(* caller.                                                                 *)
(***************************************************************************)
EXTENDS Integers, Sequences, FiniteSets, TLC

\* ------------------------------------------------------------------ bounds
MaxLen == 3
MaxVal == 1
MaxInit == 1
MaxChunk == 2
MaxThreads == 2
MaxWindow == 4
MaxTake == 4
MaxNode == 2

\* ------------------------------------------------------------- data model
Vals == 0..MaxVal

\* Option<&V> as a sequence of length at most one: <<>> is None, <<v>> is Some(v).
None == <<>>
Some(v) == <<v>>

Fields == {None} \cup {Some(v) : v \in Vals}

\* An element of the collection: a name that tells the elements apart (no
\* operation reads it) and the field the keypath reaches, which may be absent
\* (an enum variant or Option the failable keypath does not match).  The
\* elements of a collection carry the names 1, 2, .. in order, so that every
\* reordering, loss or duplication of elements shows in a result.
Collections ==
    UNION {{[i \in 1..n |-> [name |-> i, field |-> fs[i]]] : fs \in [1..n -> Fields]}
           : n \in 0..MaxLen}

\* KeyPaths::get as used through KeyPathsOperable::get_at_keypath.
KeyPathsGet(item) == item.field

AllPresent(coll) == \A i \in 1..Len(coll) : KeyPathsGet(coll[i]) # None

\* Index of the first element whose read is absent, 0 when there is none.
FirstAbsent(coll) ==
    IF AllPresent(coll) THEN 0
    ELSE CHOOSE i \in 1..Len(coll) :
            /\ KeyPathsGet(coll[i]) = None
            /\ \A j \in 1..(i - 1) : KeyPathsGet(coll[j]) # None

\* ------------------------------------------------------------ error model
Ok(v) == [tag |-> "Ok", val |-> v]
Err(variant) == [tag |-> "Err", val |-> variant]
\* A panic that unwinds out of the call; at is the index of the element whose
\* read failed (0 when the call site does not determine one).
Panic(at) == [tag |-> "Panic", val |-> at]
Pending == [tag |-> "Pending", val |-> 0]

KeyPathErrorVariants ==
    {"InvalidAccess", "TypeMismatch", "RuntimeFailure",
     "CollectionError", "AsyncError", "ParallelError"}

\* A get_at_keypath that reports absence as a general runtime failure.
get_at_keypath_runtime_failure(item) ==
    IF KeyPathsGet(item) = None THEN Err("RuntimeFailure")
    ELSE Ok(KeyPathsGet(item)[1])

\* get_at_keypath: absence becomes Err(InvalidAccess).
get_at_keypath(item) ==
    IF KeyPathsGet(item) = None THEN Err("InvalidAccess")
    ELSE Ok(KeyPathsGet(item)[1])

\* ------------------------------------------------- caller-supplied closures
Preds == {"isZero", "isPos"}
Maps == {"inc"}
Folds == {"add", "max", "sub", "shift"}
Keys == {"id", "zero"}
Cmps == {"asc", "desc"}
Zips == {"sub"}
Aggs == {"sum", "to_vec"}

ApplyPred(p, v) == IF p = "isZero" THEN v = 0 ELSE v > 0
ApplyMap(f, v) == v + 1
ApplyFold(f, acc, v) ==
    CASE f = "add" -> acc + v
      [] f = "max" -> IF acc >= v THEN acc ELSE v
      [] f = "shift" -> 2 * acc + v
      [] OTHER -> acc - v
ApplyKey(k, v) == IF k = "id" THEN v ELSE 0
\* std::cmp::Ordering of compare(a, b) as -1 (Less), 0 (Equal), 1 (Greater).
Compare(c, a, b) ==
    LET d == IF a < b THEN 0 - 1 ELSE IF a > b THEN 1 ELSE 0
    IN IF c = "asc" THEN d ELSE 0 - d

\* f(value1, value2) of zip_with_keypath.
ApplyZip(f, a, b) == a - b

RECURSIVE Sum(_)
Sum(window) == IF window = <<>> THEN 0 ELSE Head(window) + Sum(Tail(window))

\* f(&window) of window_by_keypath and rolling_by_keypath.
ApplyAgg(f, window) == IF f = "sum" THEN Sum(window) ELSE window

AssociativeCommutative(f) == f \in {"add", "max"}

\* ------------------------------------------- sequential: higher_order.rs
\* The KeyPath trait of higher_order.rs: get returns &V, it cannot be absent, so
\* these functions are only ever applied to collections whose field is present.
KeyPathGet(item) == item.field[1]

\* A map that hands the results back in reverse order.
map_keypath_reversed(collection, f) ==
    Ok([i \in 1..Len(collection) |->
          ApplyMap(f, KeyPathGet(collection[Len(collection) + 1 - i]))])

map_keypath_collection(collection, f) ==
    Ok([i \in 1..Len(collection) |-> ApplyMap(f, KeyPathGet(collection[i]))])

\* A filter that keeps the elements the predicate rejects.
filter_out_by_keypath(collection, predicate) ==
    Ok(SelectSeq(collection, LAMBDA item : ~ApplyPred(predicate, KeyPathGet(item))))

filter_by_keypath(collection, predicate) ==
    Ok(SelectSeq(collection, LAMBDA item : ApplyPred(predicate, KeyPathGet(item))))

RECURSIVE FoldLoop(_, _, _, _)
FoldLoop(collection, i, acc, f) ==
    IF i > Len(collection) THEN acc
    ELSE FoldLoop(collection, i + 1, ApplyFold(f, acc, KeyPathGet(collection[i])), f)

\* A fold that takes the elements from the last to the first.
fold_keypath_from_last(collection, init, f) ==
    Ok(FoldLoop([i \in 1..Len(collection) |-> collection[Len(collection) + 1 - i]],
                1, init, f))

fold_keypath(collection, init, f) == Ok(FoldLoop(collection, 1, init, f))

RECURSIVE FindLoop(_, _, _)
FindLoop(collection, i, predicate) ==
    IF i > Len(collection) THEN None
    ELSE IF ApplyPred(predicate, KeyPathGet(collection[i])) THEN Some(collection[i])
    ELSE FindLoop(collection, i + 1, predicate)

find_by_keypath(collection, predicate) == Ok(FindLoop(collection, 1, predicate))

\* groups.entry(key).or_insert_with(Vec::new).push(item): a HashMap as a
\* function from the keys present to their buckets.
EntryPush(groups, key, item) ==
    [k \in DOMAIN groups \cup {key} |->
        IF k = key
        THEN (IF key \in DOMAIN groups THEN Append(groups[key], item) ELSE <<item>>)
        ELSE groups[k]]

EmptyMap == [k \in {} |-> <<>>]

RECURSIVE GroupLoop(_, _, _, _)
GroupLoop(collection, i, groups, f) ==
    IF i > Len(collection) THEN groups
    ELSE GroupLoop(collection, i + 1,
                   EntryPush(groups, ApplyKey(f, KeyPathGet(collection[i])), collection[i]), f)

group_by_keypath(collection, f) == Ok(GroupLoop(collection, 1, EmptyMap, f))

\* An insertion that puts the element before the elements it compares Equal to.
InsertBeforeEqual(run, item, compare) ==
    LET after == {j \in 1..Len(run) :
                    Compare(compare, KeyPathGet(run[j]), KeyPathGet(item)) < 0}
        k == IF after = {} THEN 0 ELSE CHOOSE j \in after : \A m \in after : m <= j
    IN SubSeq(run, 1, k) \o <<item>> \o SubSeq(run, k + 1, Len(run))

\* slice::sort_by is a stable sort: insertion of each element after every
\* element that does not compare Greater than it.
InsertStable(run, item, compare) ==
    LET after == {j \in 1..Len(run) :
                    Compare(compare, KeyPathGet(run[j]), KeyPathGet(item)) <= 0}
        k == IF after = {} THEN 0 ELSE CHOOSE j \in after : \A m \in after : m <= j
    IN SubSeq(run, 1, k) \o <<item>> \o SubSeq(run, k + 1, Len(run))

RECURSIVE SortLoop(_, _, _, _)
SortLoop(collection, i, run, compare) ==
    IF i > Len(collection) THEN run
    ELSE SortLoop(collection, i + 1, InsertStable(run, collection[i], compare), compare)

\* The slice after sort_by_keypath returned.
sort_by_keypath(collection, compare) == Ok(SortLoop(collection, 1, <<>>, compare))

collect_keypath(collection) ==
    Ok([i \in 1..Len(collection) |-> KeyPathGet(collection[i])])

partition_by_keypath(collection, predicate) ==
    Ok(<<SelectSeq(collection, LAMBDA item : ApplyPred(predicate, KeyPathGet(item))),
         SelectSeq(collection, LAMBDA item : ~ApplyPred(predicate, KeyPathGet(item)))>>)

Min(a, b) == IF a <= b THEN a ELSE b

RECURSIVE ZipLoop(_, _, _, _, _)
ZipLoop(collection1, collection2, i, result, f) ==
    IF i > Min(Len(collection1), Len(collection2)) THEN result
    ELSE ZipLoop(collection1, collection2, i + 1,
                 Append(result, ApplyZip(f, KeyPathGet(collection1[i]),
                                         KeyPathGet(collection2[i]))), f)

zip_with_keypath(collection1, collection2, f) ==
    Ok(ZipLoop(collection1, collection2, 1, <<>>, f))

\* --------------------------- sequential: collections.rs KeyPathsCollectionExt
\* item.get_at_keypath(&keypath).unwrap_or_else(|_| panic!(..)) on every element
\* of a full scan: the call panics at the first element whose read is absent.
Unwrapped(collection, result) ==
    IF AllPresent(collection) THEN result ELSE Panic(FirstAbsent(collection))

Ext_collect_keypath(collection) == Unwrapped(collection, collect_keypath(collection))

Ext_partition_by_keypath(collection, predicate) ==
    Unwrapped(collection, partition_by_keypath(collection, predicate))

Ext_group_by_keypath(collection, f) == Unwrapped(collection, group_by_keypath(collection, f))

\* sort_by calls the comparison (and so the unwrap) only on slices of two or
\* more elements, and then on every element.
Ext_sort_by_keypath(collection, compare) ==
    IF Len(collection) >= 2 /\ ~AllPresent(collection) THEN Panic(0)
    ELSE IF Len(collection) < 2 THEN Ok(collection)
    ELSE sort_by_keypath(collection, compare)

RECURSIVE ExtFindLoop(_, _, _)
ExtFindLoop(collection, i, predicate) ==
    IF i > Len(collection) THEN Ok(None)
    ELSE IF KeyPathsGet(collection[i]) = None THEN Panic(i)
    ELSE IF ApplyPred(predicate, KeyPathsGet(collection[i])[1]) THEN Ok(Some(collection[i]))
    ELSE ExtFindLoop(collection, i + 1, predicate)

Ext_find_by_keypath(collection, predicate) == ExtFindLoop(collection, 1, predicate)

RECURSIVE AnyLoop(_, _, _)
AnyLoop(collection, i, predicate) ==
    IF i > Len(collection) THEN Ok(FALSE)
    ELSE IF KeyPathsGet(collection[i]) = None THEN Panic(i)
    ELSE IF ApplyPred(predicate, KeyPathsGet(collection[i])[1]) THEN Ok(TRUE)
    ELSE AnyLoop(collection, i + 1, predicate)

any_by_keypath(collection, predicate) == AnyLoop(collection, 1, predicate)

RECURSIVE AllLoop(_, _, _)
AllLoop(collection, i, predicate) ==
    IF i > Len(collection) THEN Ok(TRUE)
    ELSE IF KeyPathsGet(collection[i]) = None THEN Panic(i)
    ELSE IF ~ApplyPred(predicate, KeyPathsGet(collection[i])[1]) THEN Ok(FALSE)
    ELSE AllLoop(collection, i + 1, predicate)

all_by_keypath(collection, predicate) == AllLoop(collection, 1, predicate)

RECURSIVE CountLoop(_, _, _, _)
CountLoop(collection, i, count, predicate) ==
    IF i > Len(collection) THEN Ok(count)
    ELSE IF KeyPathsGet(collection[i]) = None THEN Panic(i)
    ELSE CountLoop(collection, i + 1,
                   IF ApplyPred(predicate, KeyPathsGet(collection[i])[1])
                   THEN count + 1 ELSE count,
                   predicate)

count_by_keypath(collection, predicate) == CountLoop(collection, 1, 0, predicate)

RECURSIVE ExtZipLoop(_, _, _, _, _)
ExtZipLoop(self, other, i, result, f) ==
    IF i > Min(Len(self), Len(other)) THEN Ok(result)
    ELSE IF KeyPathsGet(self[i]) = None \/ KeyPathsGet(other[i]) = None THEN Panic(i)
    ELSE ExtZipLoop(self, other, i + 1,
                    Append(result, ApplyZip(f, KeyPathsGet(self[i])[1],
                                            KeyPathsGet(other[i])[1])), f)

Ext_zip_with_keypath(self, other, f) == ExtZipLoop(self, other, 1, <<>>, f)

\* self[i..i + window_size].iter().map(..unwrap..).collect(): the values of one
\* window, or the index of the first absent read in it.
WindowAt(self, i, window_size) ==
    LET slice == SubSeq(self, i, i + window_size - 1)
    IN IF AllPresent(slice)
       THEN Ok([k \in 1..window_size |-> KeyPathsGet(slice[k])[1]])
       ELSE Panic(i + FirstAbsent(slice) - 1)

RECURSIVE WindowLoop(_, _, _, _, _)
WindowLoop(self, i, window_size, result, f) ==
    IF i > Len(self) - window_size + 1 THEN Ok(result)
    ELSE IF WindowAt(self, i, window_size).tag = "Panic" THEN WindowAt(self, i, window_size)
    ELSE WindowLoop(self, i + 1, window_size,
                    Append(result, ApplyAgg(f, WindowAt(self, i, window_size).val)), f)

\* A window check that also rejects the window as long as the collection.
window_by_keypath_strict(self, window_size, f) ==
    IF window_size = 0 \/ window_size >= Len(self) THEN Err("CollectionError")
    ELSE WindowLoop(self, 1, window_size, <<>>, f)

\* A window without the check against the length of the collection.
window_by_keypath_unchecked(self, window_size, f) ==
    IF window_size = 0 THEN Err("CollectionError")
    ELSE WindowLoop(self, 1, window_size, <<>>, f)

window_by_keypath(self, window_size, f) ==
    IF window_size = 0 \/ window_size > Len(self) THEN Err("CollectionError")
    ELSE WindowLoop(self, 1, window_size, <<>>, f)

\* One turn of rolling_by_keypath's loop on a present value: push, and when the
\* window holds window_size values emit f(&window) and remove the oldest.
RollingPush(roll, value, window_size, f) ==
    IF Len(roll.window) + 1 = window_size
    THEN [window |-> Tail(Append(roll.window, value)),
          result |-> Append(roll.result, ApplyAgg(f, Append(roll.window, value)))]
    ELSE [window |-> Append(roll.window, value), result |-> roll.result]

RECURSIVE RollingLoop(_, _, _, _, _)
RollingLoop(self, i, roll, window_size, f) ==
    IF i > Len(self) THEN Ok(roll.result)
    ELSE IF KeyPathsGet(self[i]) = None THEN Panic(i)
    ELSE RollingLoop(self, i + 1,
                     RollingPush(roll, KeyPathsGet(self[i])[1], window_size, f),
                     window_size, f)

rolling_by_keypath(self, window_size, f) ==
    IF window_size = 0 THEN Err("CollectionError")
    ELSE RollingLoop(self, 1, [window |-> <<>>, result |-> <<>>], window_size, f)

\* ------------------------------------- sequential: traits.rs KeyPathsIterator
Iter_map_keypath(collection, f) ==
    Unwrapped(collection, map_keypath_collection(collection, f))

Iter_filter_by_keypath(collection, predicate) ==
    Unwrapped(collection, filter_by_keypath(collection, predicate))

\* if let Ok(value) = item.get_at_keypath(&keypath) { .. }: an element whose
\* read is absent is passed over and the loop goes on.
RECURSIVE IterFindLoop(_, _, _)
IterFindLoop(collection, i, predicate) ==
    IF i > Len(collection) THEN Ok(None)
    ELSE IF /\ get_at_keypath(collection[i]).tag = "Ok"
            /\ ApplyPred(predicate, get_at_keypath(collection[i]).val)
         THEN Ok(Some(collection[i]))
    ELSE IterFindLoop(collection, i + 1, predicate)

Iter_find_by_keypath(collection, predicate) == IterFindLoop(collection, 1, predicate)

RECURSIVE IterFoldLoop(_, _, _, _)
IterFoldLoop(collection, i, acc, f) ==
    IF i > Len(collection) THEN Ok(acc)
    ELSE IterFoldLoop(collection, i + 1,
                      IF get_at_keypath(collection[i]).tag = "Ok"
                      THEN ApplyFold(f, acc, get_at_keypath(collection[i]).val)
                      ELSE acc,
                      f)

Iter_fold_keypath(collection, init, f) == IterFoldLoop(collection, 1, init, f)

RECURSIVE IterCollectLoop(_, _, _)
IterCollectLoop(collection, i, result) ==
    IF i > Len(collection) THEN Ok(result)
    ELSE IterCollectLoop(collection, i + 1,
                         IF get_at_keypath(collection[i]).tag = "Ok"
                         THEN Append(result, get_at_keypath(collection[i]).val)
                         ELSE result)

Iter_collect_keypath(collection) == IterCollectLoop(collection, 1, <<>>)

\* ----------------------------- sequential: traits.rs KeyPathsCollection for Vec
RECURSIVE CollGroupLoop(_, _, _, _)
CollGroupLoop(collection, i, groups, f) ==
    IF i > Len(collection) THEN Ok(groups)
    ELSE CollGroupLoop(collection, i + 1,
                       IF get_at_keypath(collection[i]).tag = "Ok"
                       THEN EntryPush(groups,
                                      ApplyKey(f, get_at_keypath(collection[i]).val),
                                      collection[i])
                       ELSE groups,
                       f)

Coll_group_by_keypath(collection, f) == CollGroupLoop(collection, 1, EmptyMap, f)

RECURSIVE CollPartitionLoop(_, _, _, _, _)
CollPartitionLoop(collection, i, left, right, predicate) ==
    IF i > Len(collection) THEN Ok(<<left, right>>)
    ELSE IF get_at_keypath(collection[i]).tag # "Ok"
         THEN CollPartitionLoop(collection, i + 1, left, right, predicate)
    ELSE IF ApplyPred(predicate, get_at_keypath(collection[i]).val)
         THEN CollPartitionLoop(collection, i + 1, Append(left, collection[i]), right, predicate)
    ELSE CollPartitionLoop(collection, i + 1, left, Append(right, collection[i]), predicate)

Coll_partition_by_keypath(collection, predicate) ==
    CollPartitionLoop(collection, 1, <<>>, <<>>, predicate)

\* keypath.get(a).unwrap_or_else(|| panic!(..)) inside sort_by.
Coll_sort_by_keypath(collection, compare) == Ext_sort_by_keypath(collection, compare)

\* --------------------------------------- sequential: composable.rs KeyPathsChain
\* filter_by_keypath and map_keypath return the next chain (its collection);
\* fold_keypath returns a KeyPathResult.  Each unwraps every read.
Chain_filter_by_keypath(collection, predicate) ==
    Unwrapped(collection, filter_by_keypath(collection, predicate))

Chain_map_keypath(collection, f) ==
    Unwrapped(collection, map_keypath_collection(collection, f))

Chain_fold_keypath(collection, init, f) ==
    Unwrapped(collection, fold_keypath(collection, init, f))

\* ------------------------------------------------ composed accessors (then)
\* One call of the caller's closure or of an accessor segment.
CallOf(fn, arg) == [fn |-> fn, arg |-> arg]

\* The values a segment reads from and reaches.
Nodes == 0..MaxNode

\* The accessors that are composed: "succ" reaches the following node and is
\* absent on the last one, "even" reaches the node itself and is absent on
\* the odd ones (an enum variant that does not match), "zero" is always
\* present.
Segments == {"succ", "even", "zero"}

SegmentGet(segment, source) ==
    CASE segment = "succ" -> IF source < MaxNode THEN Some(source + 1) ELSE None
      [] segment = "even" -> IF source % 2 = 0 THEN Some(source) ELSE None
      [] OTHER -> Some(0)

Leaf(segment) == [segment |-> segment]
Then(first, next) == [first |-> first, next |-> next]
IsLeaf(keypath) == "segment" \in DOMAIN keypath

\* The accessors a caller builds from up to three segments.
ComposedKeyPaths ==
    {Leaf(p) : p \in Segments}
        \cup {Then(Leaf(p), Leaf(q)) : p \in Segments, q \in Segments}
        \cup {Then(Then(Leaf(p), Leaf(q)), Leaf(r)) : p \in Segments, q \in Segments, r \in Segments}
        \cup {Then(Leaf(p), Then(Leaf(q), Leaf(r))) : p \in Segments, q \in Segments, r \in Segments}

\* A composed read that invokes next on the source when first is absent.
RECURSIVE GetNextAnyway(_, _)
GetNextAnyway(keypath, source) ==
    IF IsLeaf(keypath)
    THEN [value |-> SegmentGet(keypath.segment, source),
          calls |-> <<CallOf(keypath.segment, source)>>]
    ELSE LET a == GetNextAnyway(keypath.first, source)
             b == GetNextAnyway(keypath.next, IF a.value = None THEN source ELSE a.value[1])
         IN [value |-> b.value, calls |-> a.calls \o b.calls]

\* keypath.get(source): the value read (an Option) and the segments invoked.
\* The read of first.then(next) is next.get(first.get(source)?).
RECURSIVE Get(_, _)
Get(keypath, source) ==
    IF IsLeaf(keypath)
    THEN [value |-> SegmentGet(keypath.segment, source),
          calls |-> <<CallOf(keypath.segment, source)>>]
    ELSE LET a == Get(keypath.first, source)
         IN IF a.value = None THEN a
            ELSE LET b == Get(keypath.next, a.value[1])
                 IN [value |-> b.value, calls |-> a.calls \o b.calls]

\* --------------------------------------- composable.rs conditional operations
\* The caller's operation over the items it is handed (an IntoIter to an
\* IntoIter): it hands them back as they came, or in reverse.
Operations == {"same", "rev"}

Reversed(items) == [i \in 1..Len(items) |-> items[Len(items) + 1 - i]]

ApplyOperation(operation, items) == IF operation = "rev" THEN Reversed(items) ELSE items

\* The closure |v| !condition(v): the values are unsigned, so the negation of
\* "is zero" is "is positive" and the other way round.
Not(condition) == IF condition = "isZero" THEN "isPos" ELSE "isZero"

\* The while loop of when_keypath from element i on: out is what the call
\* returns, calls the invocations of operation it made.
RECURSIVE WhenLoop(_, _, _, _)
WhenLoop(collection, i, condition, operation) ==
    IF i > Len(collection) THEN [out |-> Ok(<<>>), calls |-> <<>>]
    ELSE IF KeyPathsGet(collection[i]) = None THEN [out |-> Panic(i), calls |-> <<>>]
    ELSE IF ApplyPred(condition, KeyPathsGet(collection[i])[1])
         THEN LET remaining == SubSeq(collection, i, Len(collection))
              IN [out |-> Ok(ApplyOperation(operation, remaining)),
                  calls |-> <<CallOf("operation", remaining)>>]
    ELSE WhenLoop(collection, i + 1, condition, operation)

\* A when_keypath that hands the operation the elements that meet the condition.
when_keypath_matching(collection, condition, operation) ==
    IF ~AllPresent(collection) THEN [out |-> Panic(FirstAbsent(collection)), calls |-> <<>>]
    ELSE LET matching == filter_by_keypath(collection, condition).val
         IN [out |-> Ok(ApplyOperation(operation, matching)),
             calls |-> <<CallOf("operation", matching)>>]

when_keypath(collection, condition, operation) ==
    WhenLoop(collection, 1, condition, operation)

unless_keypath(collection, condition, operation) ==
    when_keypath(collection, Not(condition), operation)

\* KeyPathsChain::collect: the chain's collection.
Chain_collect(collection) == collection

\* KeyPathsChain::take(n): into_iter().take(n).collect().
Chain_take(collection, n) == SubSeq(collection, 1, Min(n, Len(collection)))

\* A skip that drops one element more than it was asked to.
Chain_skip_one_more(collection, n) ==
    SubSeq(collection, Min(n + 1, Len(collection)) + 1, Len(collection))

\* KeyPathsChain::skip(n): into_iter().skip(n).collect().
Chain_skip(collection, n) == SubSeq(collection, Min(n, Len(collection)) + 1, Len(collection))

\* KeyPathsChain::rev: reversed.reverse().
Chain_rev(collection) == Reversed(collection)

\* ------------------------------------------------------ operation requests
\* One call: the function called (api, op), its collection and its closures.
Request(api, op, collection, predicate, f, init, chunk_size, num_threads, other, window_size, keypath, source) ==
    [api |-> api, op |-> op, collection |-> collection, predicate |-> predicate,
     f |-> f, init |-> init, chunk_size |-> chunk_size, num_threads |-> num_threads,
     other |-> other, window_size |-> window_size, keypath |-> keypath, source |-> source]

PredOps == {"filter", "find", "partition", "count", "any", "all"}

\* The closures and scalars an operation takes; the fields it does not take
\* keep one fixed value.
Params(op) ==
    CASE op \in PredOps ->
            {[predicate |-> p, f |-> "inc", init |-> 0] : p \in Preds}
      [] op = "map" ->
            {[predicate |-> "isZero", f |-> g, init |-> 0] : g \in Maps}
      [] op \in {"fold", "reduce"} ->
            {[predicate |-> "isZero", f |-> g, init |-> b] : g \in Folds, b \in {0, MaxInit}}
      [] op = "group" ->
            {[predicate |-> "isZero", f |-> g, init |-> 0] : g \in Keys}
      [] op = "sort" ->
            {[predicate |-> "isZero", f |-> g, init |-> 0] : g \in Cmps}
      [] OTHER ->
            {[predicate |-> "isZero", f |-> "inc", init |-> 0]}

ApiOps ==
    [higher_order |-> {"map", "filter", "fold", "find", "group", "sort", "collect", "partition"},
     ext |-> {"collect", "partition", "group", "sort", "find", "any", "all", "count"},
     iter |-> {"map", "filter", "find", "fold", "collect"},
     coll |-> {"group", "partition", "sort"},
     chain |-> {"new", "filter", "map", "fold"},
     par |-> {"map", "filter", "find", "fold", "group", "partition", "sort",
              "collect", "count", "any", "all"},
     pool |-> {"map"},
     async |-> {"map", "filter", "find", "fold"}]

SequentialApis == {"higher_order", "ext", "iter", "coll", "chain"}
ParallelApis == {"par", "pool", "ws"}

\* The sequential loops that are followed turn by turn.
ScanApis == {"higher_order", "ext"}
ScanOps == {"find", "zip", "rolling"}

\* higher_order.rs and async_ops.rs read through an accessor that cannot be
\* absent; the others take the failable KeyPaths.
TotalAccessorApis == {"higher_order", "async"}

ApiOpPairs == UNION {{<<a, o>> : o \in ApiOps[a]} : a \in DOMAIN ApiOps}

\* The requests a caller can make.
IsRequest(r) ==
    \/ \E ao \in ApiOpPairs, c \in Collections :
          /\ ao[1] \in TotalAccessorApis => AllPresent(c)
          /\ \E p \in Params(ao[2]) :
                r = Request(ao[1], ao[2], c, p.predicate, p.f, p.init, 0, 0, <<>>, 0, <<>>, 0)
    \/ \E c \in Collections, p \in Params("reduce"), k \in 0..MaxChunk :
          r = Request("ws", "reduce", c, p.predicate, p.f, p.init, k, 0, <<>>, 0, <<>>, 0)
    \/ \E c \in Collections, p \in Params("map"), k \in 0..MaxChunk :
          r = Request("ws", "map", c, p.predicate, p.f, p.init, k, 0, <<>>, 0, <<>>, 0)
    \/ \E n \in 0..MaxThreads :
          r = Request("pool", "create", <<>>, "isZero", "inc", 0, 0, n, <<>>, 0, <<>>, 0)
    \/ \E a \in ScanApis, c1 \in Collections, c2 \in Collections, g \in Zips :
          /\ a \in TotalAccessorApis => AllPresent(c1) /\ AllPresent(c2)
          /\ r = Request(a, "zip", c1, "isZero", g, 0, 0, 0, c2, 0, <<>>, 0)
    \/ \E o \in {"window", "rolling"}, c \in Collections, g \in Aggs, w \in 0..MaxWindow :
          r = Request("ext", o, c, "isZero", g, 0, 0, 0, <<>>, w, <<>>, 0)
    \/ \E o \in {"when", "unless"}, c \in Collections, p \in Preds, g \in Operations :
          r = Request("composable", o, c, p, g, 0, 0, 0, <<>>, 0, <<>>, 0)
    \/ \E k \in ComposedKeyPaths, v \in Nodes :
          r = Request("keypath", "get", <<>>, "isZero", "inc", 0, 0, 0, <<>>, 0, k, v)
    \/ \E c \in Collections :
          \* item.get_at_keypath(keypath): the receiver is the one element of c
          /\ Len(c) = 1
          /\ r = Request("operable", "get_at_keypath", c, "isZero", "inc", 0, 0, 0, <<>>, 0, <<>>, 0)

\* ------------------------------------------------------------------- state
VARIABLES
    req,      \* the operation request being executed
    tasks,    \* parallel/async execution: task range <<lo, hi>> -> its state
    found,    \* the shared flag of find_any (also behind any and all)
    out,      \* what the call returned to the caller
    pc,       \* "call": not yet executed, "run": tasks in flight, "done": returned
    coll,     \* the collection the caller holds
    calls,    \* the calls made to the caller's closure and accessor segments
    prev      \* what the first of two equal calls returned

vars == <<req, tasks, found, out, pc, coll, calls, prev>>

\* par_chunks_exact(chunk_size): only the chunks of full length.
ChunksExact(collection, chunk_size) ==
    [k \in 1..(Len(collection) \div chunk_size) |->
        SubSeq(collection, (k - 1) * chunk_size + 1, k * chunk_size)]

\* par_chunks(chunk_size): consecutive chunks, the last one possibly shorter.
Chunks(collection, chunk_size) ==
    [k \in 1..((Len(collection) + chunk_size - 1) \div chunk_size) |->
        SubSeq(collection, (k - 1) * chunk_size + 1,
               IF k * chunk_size < Len(collection) THEN k * chunk_size ELSE Len(collection))]

\* The items the parallel iterator runs over: the elements, or the chunks.
Items(r) ==
    IF r.api = "ws" THEN Chunks(r.collection, r.chunk_size)
    ELSE IF r.op = "zip"
         THEN SubSeq(r.collection, 1, Min(Len(r.collection), Len(r.other)))
    ELSE r.collection

\* The folder a leaf starts from.
EmptyFolder(r) ==
    CASE r.op \in {"map", "filter", "collect", "group", "sort", "zip"} -> <<>>
      [] r.op = "partition" -> <<<<>>, <<>>>>
      [] r.op \in {"find", "any", "all"} -> None
      [] r.op \in {"fold", "reduce"} -> r.init
      [] r.op = "count" -> 0
      [] r.op = "rolling" -> [window |-> <<>>, result |-> <<>>]

\* st: "ready" (not started), "run", "split" (waiting for its halves), "done";
\* pos: the next index to consume; res: the folder; panic: the caught panic.
\* leaves, early and fails record the history of the subtree: how many leaves
\* it ran as, whether a leaf ended while a task to its left had not, and how
\* many leaves panicked.
NewTask(r, lo) ==
    [st |-> "ready", pos |-> lo, res |-> EmptyFolder(r), panic |-> None,
     leaves |-> 1, early |-> FALSE, fails |-> 0]

NoTasks == [t \in {} |-> 0]

\* Calls that run as tasks start with the root task over the whole range;
\* par_chunks(0) and the other calls have no task.
Engine(r) ==
    \/ /\ r.api \in ParallelApis \cup {"async"}
       /\ r.op # "create"
       /\ ~(r.api = "ws" /\ r.chunk_size = 0)
    \/ /\ r.api \in ScanApis
       /\ r.op \in ScanOps
       /\ ~(r.op = "rolling" /\ r.window_size = 0)

Root(r) == <<1, Len(Items(r)) + 1>>

Init ==
    /\ IsRequest(req)
    /\ tasks = IF Engine(req) THEN (Root(req) :> NewTask(req, 1)) ELSE NoTasks
    /\ found = FALSE
    /\ out = Pending
    /\ pc = IF Engine(req) THEN "run" ELSE "call"
    /\ coll = req.collection
    /\ calls = <<>>
    /\ prev = Pending

\* ------------------------------------------------- the caller's collection
\* Every arrangement of the elements of a slice.
Arrangements(collection) ==
    {[i \in 1..Len(collection) |-> collection[p[i]]] : p \in Permutations(1..Len(collection))}

\* A filter that works in place (Vec::retain) on the caller's collection.
CallerRetains(r, outcome) ==
    IF r.op = "filter" /\ outcome.tag = "Ok" THEN {outcome.val} ELSE {r.collection}

\* What the caller holds after the call. The functions take the collection as
\* &[T] or &self, or take a Vec the caller gave away (its own copy stays as it
\* was); only sort_by_keypath takes &mut: the caller's slice holds the sorted
\* order after it returns, and an unspecified arrangement of its elements when
\* the comparison panicked in the middle of the sort.
CallerAfter(r, outcome) ==
    IF r.op # "sort" THEN {r.collection}
    ELSE IF outcome.tag = "Ok" THEN {outcome.val}
    ELSE Arrangements(r.collection)

\* ------------------------------------------------------- sequential calls
SequentialCall(r) ==
    LET c == r.collection
    IN CASE r.api = "higher_order" ->
              (CASE r.op = "map" -> map_keypath_collection(c, r.f)
                 [] r.op = "filter" -> filter_by_keypath(c, r.predicate)
                 [] r.op = "fold" -> fold_keypath(c, r.init, r.f)
                 [] r.op = "find" -> find_by_keypath(c, r.predicate)
                 [] r.op = "group" -> group_by_keypath(c, r.f)
                 [] r.op = "sort" -> sort_by_keypath(c, r.f)
                 [] r.op = "collect" -> collect_keypath(c)
                 [] r.op = "partition" -> partition_by_keypath(c, r.predicate)
                 [] r.op = "zip" -> zip_with_keypath(c, r.other, r.f))
         [] r.api = "ext" ->
              (CASE r.op = "collect" -> Ext_collect_keypath(c)
                 [] r.op = "partition" -> Ext_partition_by_keypath(c, r.predicate)
                 [] r.op = "group" -> Ext_group_by_keypath(c, r.f)
                 [] r.op = "sort" -> Ext_sort_by_keypath(c, r.f)
                 [] r.op = "find" -> Ext_find_by_keypath(c, r.predicate)
                 [] r.op = "any" -> any_by_keypath(c, r.predicate)
                 [] r.op = "all" -> all_by_keypath(c, r.predicate)
                 [] r.op = "count" -> count_by_keypath(c, r.predicate)
                 [] r.op = "zip" -> Ext_zip_with_keypath(c, r.other, r.f)
                 [] r.op = "window" -> window_by_keypath(c, r.window_size, r.f)
                 [] r.op = "rolling" -> rolling_by_keypath(c, r.window_size, r.f))
         [] r.api = "iter" ->
              (CASE r.op = "map" -> Iter_map_keypath(c, r.f)
                 [] r.op = "filter" -> Iter_filter_by_keypath(c, r.predicate)
                 [] r.op = "find" -> Iter_find_by_keypath(c, r.predicate)
                 [] r.op = "fold" -> Iter_fold_keypath(c, r.init, r.f)
                 [] r.op = "collect" -> Iter_collect_keypath(c))
         [] r.api = "coll" ->
              (CASE r.op = "group" -> Coll_group_by_keypath(c, r.f)
                 [] r.op = "partition" -> Coll_partition_by_keypath(c, r.predicate)
                 [] r.op = "sort" -> Coll_sort_by_keypath(c, r.f))
         [] r.api = "chain" ->
              (CASE r.op = "new" -> Ok(c)
                 [] r.op = "filter" -> Chain_filter_by_keypath(c, r.predicate)
                 [] r.op = "map" -> Chain_map_keypath(c, r.f)
                 [] r.op = "fold" -> Chain_fold_keypath(c, r.init, r.f))

\* A sequential function runs to its return (or panic) in one step.
Call ==
    /\ pc = "call"
    /\ req.api \in SequentialApis
    /\ out' = SequentialCall(req)
    /\ coll' \in CallerAfter(req, out')
    /\ pc' = "done"
    /\ UNCHANGED <<req, tasks, found, calls, prev>>

\* The methods of a KeyPathsChain made by chain_keypath_ops(collection): each
\* takes the chain and returns the next one, which the caller may call again.
Chained == pc = "done" /\ req.api = "chain" /\ req.op = "new" /\ out.tag = "Ok"

ChainFilter ==
    /\ Chained
    /\ \E predicate \in Preds : out' = Chain_filter_by_keypath(out.val, predicate)
    /\ UNCHANGED <<req, tasks, found, pc, coll, calls, prev>>

ChainTake ==
    /\ Chained
    /\ \E n \in 0..MaxTake : out' = Ok(Chain_take(out.val, n))
    /\ UNCHANGED <<req, tasks, found, pc, coll, calls, prev>>

ChainSkip ==
    /\ Chained
    /\ \E n \in 0..MaxTake : out' = Ok(Chain_skip(out.val, n))
    /\ UNCHANGED <<req, tasks, found, pc, coll, calls, prev>>

ChainRev ==
    /\ Chained
    /\ out' = Ok(Chain_rev(out.val))
    /\ UNCHANGED <<req, tasks, found, pc, coll, calls, prev>>

\* when_keypath / unless_keypath (also behind ComposableIterator's methods of
\* the same names, which collect the iterator and call them).
When ==
    /\ pc = "call"
    /\ req.api = "composable"
    /\ LET w == IF req.op = "when"
                THEN when_keypath(req.collection, req.predicate, req.f)
                ELSE unless_keypath(req.collection, req.predicate, req.f)
       IN /\ out' = w.out
          /\ calls' = w.calls
    /\ pc' = "done"
    /\ UNCHANGED <<req, tasks, found, coll, prev>>

\* A read that unwraps the value it reaches.
ReadComposedUnwrapping ==
    /\ pc = "call"
    /\ req.api = "keypath"
    /\ LET g == Get(req.keypath, req.source)
       IN /\ out' = IF g.value = None THEN Panic(0) ELSE Ok(g.value)
          /\ calls' = g.calls
    /\ pc' = "done"
    /\ UNCHANGED <<req, tasks, found, coll, prev>>

\* keypath.get(&source) with a composed keypath.
ReadComposed ==
    /\ pc = "call"
    /\ req.api = "keypath"
    /\ LET g == Get(req.keypath, req.source)
       IN /\ out' = Ok(g.value)
          /\ calls' = g.calls
    /\ pc' = "done"
    /\ UNCHANGED <<req, tasks, found, coll, prev>>

\* self.get_at_keypath(keypath) on one value.
GetAtKeypath ==
    /\ pc = "call"
    /\ req.api = "operable"
    /\ out' = get_at_keypath(req.collection[1])
    /\ pc' = "done"
    /\ UNCHANGED <<req, tasks, found, coll, calls, prev>>

\* ThreadPoolBuilder::new().num_threads(n).build(): rayon reads num_threads 0
\* as "choose the default number of threads" (cpus); build fails when the
\* worker threads cannot be spawned.
create_keypath_thread_pool(num_threads, spawned, cpus) ==
    IF spawned
    THEN Ok([threads |-> IF num_threads = 0 THEN cpus ELSE num_threads])
    ELSE Err("ParallelError")

CreatePool ==
    /\ pc = "call"
    /\ req.api = "pool" /\ req.op = "create"
    /\ \E spawned \in BOOLEAN, cpus \in 1..MaxThreads :
          out' = create_keypath_thread_pool(req.num_threads, spawned, cpus)
    /\ pc' = "done"
    /\ UNCHANGED <<req, tasks, found, coll, calls, prev>>

\* slice.par_chunks(0) panics ("chunk_size must not be zero") before any task.
ParChunksZero ==
    /\ pc = "call"
    /\ req.api = "ws" /\ req.chunk_size = 0
    /\ out' = Panic(0)
    /\ pc' = "done"
    /\ UNCHANGED <<req, tasks, found, coll, calls, prev>>

\* ------------------------------------------------ parallel execution (rayon)
\* find_any's consumer is full once any task has found an item: a full consumer
\* takes no further item and is not split.
Full == found /\ req.op \in {"find", "any", "all"}

Folded(res, panic, stop, hit) == [res |-> res, panic |-> panic, stop |-> stop, hit |-> hit]

\* What a leaf's folder does with item i of the iterator: the new folder, the
\* panic of the closure if its read is absent, whether the leaf stops here, and
\* whether it raises the found flag.
Consume(r, res, i, full) ==
    LET item == Items(r)[i]
        rd == get_at_keypath(item)
        panicked == Folded(res, Some(i), TRUE, FALSE)
        next(x) == Folded(x, None, FALSE, FALSE)
    IN CASE r.op = "reduce" ->
              \* chunk.iter().map(unwrap).fold(init.clone(), f), then the reduce
              \* folder (which started from init) takes the chunk's value
              IF ~AllPresent(item)
              THEN Folded(res, Some((i - 1) * r.chunk_size + FirstAbsent(item)), TRUE, FALSE)
              ELSE next(ApplyFold(r.f, res, FoldLoop(item, 1, r.init, r.f)))
         [] r.api = "ws" /\ r.op = "map" ->
              \* flat_map(|chunk| chunk.par_iter().map(..unwrap..).collect::<Vec<_>>()):
              \* the chunk's own parallel map yields its values in the chunk's
              \* order, or unwinds with the panic of its first absent read
              IF ~AllPresent(item)
              THEN Folded(res, Some((i - 1) * r.chunk_size + FirstAbsent(item)), TRUE, FALSE)
              ELSE next(res \o map_keypath_collection(item, r.f).val)
         [] r.op = "find" ->
              \* take_while(not_full) looks at the flag before find_op reads
              IF full THEN Folded(res, None, TRUE, FALSE)
              ELSE IF rd.tag # "Ok" THEN panicked
              ELSE IF ApplyPred(r.predicate, rd.val) THEN Folded(Some(item), None, TRUE, TRUE)
              ELSE next(res)
         [] r.op \in {"any", "all"} ->
              \* map(predicate) runs (and unwraps) before take_while(not_full)
              IF rd.tag # "Ok" THEN panicked
              ELSE IF full THEN Folded(res, None, TRUE, FALSE)
              ELSE IF ApplyPred(r.predicate, rd.val) = (r.op = "any")
                   THEN Folded(Some(r.op = "any"), None, TRUE, TRUE)
              ELSE next(res)
         [] r.op = "sort" ->
              \* the comparison unwraps both of its operands
              IF res = <<>> THEN next(<<item>>)
              ELSE IF rd.tag # "Ok" \/ ~AllPresent(res) THEN Folded(res, Some(0), TRUE, FALSE)
              ELSE next(InsertStable(res, item, r.f))
         [] OTHER ->
              IF rd.tag # "Ok" THEN panicked
              ELSE CASE r.op = "map" -> next(Append(res, ApplyMap(r.f, rd.val)))
                     [] r.op = "filter" ->
                          next(IF ApplyPred(r.predicate, rd.val) THEN Append(res, item) ELSE res)
                     [] r.op = "fold" -> next(ApplyFold(r.f, res, rd.val))
                     [] r.op = "group" -> next(Append(res, <<ApplyKey(r.f, rd.val), item>>))
                     [] r.op = "partition" ->
                          next(IF ApplyPred(r.predicate, rd.val)
                               THEN <<Append(res[1], item), res[2]>>
                               ELSE <<res[1], Append(res[2], item)>>)
                     [] r.op = "collect" -> next(Append(res, rd.val))
                     [] r.op = "count" ->
                          next(IF ApplyPred(r.predicate, rd.val) THEN res + 1 ELSE res)

\* folder.complete(): par_fold_keypath's FoldFolder hands its accumulator to the
\* reduce folder, which started from init: f(init, acc).
Complete(r, res) == IF r.op = "fold" THEN ApplyFold(r.f, r.init, res) ELSE res

\* A merge that lets an element of the right run pass the left run's equal ones.
MergeRightFirst(left, right, compare) == SortLoop(left, 1, right, compare)

\* Stable merge of two sorted runs: an element of the right run goes after
\* every element that does not compare Greater than it.
Merge(left, right, compare) == SortLoop(right, 1, left, compare)

\* A reducer that puts the right half's result before the left half's.
ReduceRightFirst(r, left, right) ==
    CASE r.op \in {"map", "filter", "collect", "group"} -> right \o left
      [] r.op = "partition" -> <<right[1] \o left[1], right[2] \o left[2]>>
      [] r.op \in {"find", "any", "all"} -> IF right # None THEN right ELSE left
      [] r.op \in {"fold", "reduce"} -> ApplyFold(r.f, right, left)
      [] r.op = "count" -> left + right
      [] r.op = "sort" -> right \o left

\* The consumer's reducer, applied to the results of the left and the right half.
Reduce(r, left, right) ==
    CASE r.op \in {"map", "filter", "collect", "group"} -> left \o right
      [] r.op = "partition" -> <<left[1] \o right[1], left[2] \o right[2]>>
      [] r.op \in {"find", "any", "all"} -> IF left # None THEN left ELSE right
      [] r.op \in {"fold", "reduce"} -> ApplyFold(r.f, left, right)
      [] r.op = "count" -> left + right
      [] r.op = "sort" ->
            IF left = <<>> THEN right ELSE IF right = <<>> THEN left
            ELSE Merge(left, right, r.f)

\* A join that resumes the right half's panic in preference to the left's.
JoinPanicRightFirst(r, left, right) ==
    IF right.panic # None THEN right.panic
    ELSE IF left.panic # None THEN left.panic
    ELSE IF /\ r.op = "sort" /\ left.res # <<>> /\ right.res # <<>>
            /\ (~AllPresent(left.res) \/ ~AllPresent(right.res))
         THEN Some(0)
    ELSE None

\* rayon's join: a panic of the left half is resumed once the right half has
\* ended; a panic of the right half is resumed if the left half returned.
JoinPanic(r, left, right) ==
    IF left.panic # None THEN left.panic
    ELSE IF right.panic # None THEN right.panic
    ELSE IF /\ r.op = "sort" /\ left.res # <<>> /\ right.res # <<>>
            /\ (~AllPresent(left.res) \/ ~AllPresent(right.res))
         THEN Some(0)
    ELSE None

RECURSIVE PairsLoop(_, _, _)
PairsLoop(pairs, i, result) ==
    IF i > Len(pairs) THEN result
    ELSE PairsLoop(pairs, i + 1, EntryPush(result, pairs[i][1], pairs[i][2]))

\* What the function makes of the iterator's result before Ok(..).
Finalize(r, res) ==
    CASE r.op = "group" -> PairsLoop(res, 1, EmptyMap)
      [] r.op = "any" -> res # None
      [] r.op = "all" -> res = None
      [] r.op = "rolling" -> res.result
      [] OTHER -> res

Mid(t) == t[1] + ((t[2] - t[1]) \div 2)

\* bridge_producer_consumer splits a task that has not started into two halves
\* (whether it does depends on the pool and on stealing: any task may or may
\* not be split).
Split(t) ==
    /\ pc = "run"
    /\ req.api \in ParallelApis
    /\ tasks[t].st = "ready"
    /\ t[2] - t[1] >= 2
    /\ ~Full
    /\ tasks' = [x \in DOMAIN tasks \cup {<<t[1], Mid(t)>>, <<Mid(t), t[2]>>} |->
                    IF x = t THEN [tasks[t] EXCEPT !.st = "split"]
                    ELSE IF x \in DOMAIN tasks THEN tasks[x]
                    ELSE NewTask(req, x[1])]
    /\ UNCHANGED <<req, found, out, pc, coll, calls, prev>>

\* Some task strictly to the left of t has not ended yet.
LeftUnfinished(t) ==
    \E x \in DOMAIN tasks : x[2] <= t[1] /\ tasks[x].st \in {"ready", "run"}

\* A worker advances a leaf by one item (or ends a leaf that has nothing to
\* take: an empty range, or a consumer that is already full).
Step(t) ==
    /\ pc = "run"
    /\ req.api \in ParallelApis
    /\ tasks[t].st \in {"ready", "run"}
    /\ LET task == tasks[t]
       IN IF task.pos = t[2] \/ (task.st = "ready" /\ Full)
          THEN /\ tasks' = [tasks EXCEPT ![t] =
                              [task EXCEPT !.st = "done", !.res = Complete(req, task.res),
                                           !.early = LeftUnfinished(t)]]
               /\ found' = found
          ELSE LET c == Consume(req, task.res, task.pos, Full)
                   last == c.stop \/ task.pos + 1 = t[2]
               IN /\ tasks' = [tasks EXCEPT ![t] =
                                 [st |-> IF last THEN "done" ELSE "run",
                                  pos |-> task.pos + 1,
                                  res |-> IF c.panic # None THEN EmptyFolder(req)
                                          ELSE IF last THEN Complete(req, c.res)
                                          ELSE c.res,
                                  panic |-> c.panic,
                                  leaves |-> 1,
                                  early |-> last /\ LeftUnfinished(t),
                                  fails |-> IF c.panic # None THEN 1 ELSE 0]]
                  /\ found' = (found \/ c.hit)
    /\ UNCHANGED <<req, out, pc, coll, calls, prev>>

\* Both halves of a split task have ended: the reducer combines them.
Join(t) ==
    /\ pc = "run"
    /\ req.api \in ParallelApis
    /\ tasks[t].st = "split"
    /\ LET l == <<t[1], Mid(t)>>
           r == <<Mid(t), t[2]>>
       IN /\ tasks[l].st = "done" /\ tasks[r].st = "done"
          /\ tasks' = [x \in DOMAIN tasks \ {l, r} |->
                         IF x # t THEN tasks[x]
                         ELSE [st |-> "done",
                               pos |-> t[2],
                               res |-> IF JoinPanic(req, tasks[l], tasks[r]) # None
                                       THEN EmptyFolder(req)
                                       ELSE Reduce(req, tasks[l].res, tasks[r].res),
                               panic |-> JoinPanic(req, tasks[l], tasks[r]),
                               leaves |-> tasks[l].leaves + tasks[r].leaves,
                               early |-> tasks[l].early \/ tasks[r].early,
                               fails |-> tasks[l].fails + tasks[r].fails]]
    /\ UNCHANGED <<req, found, out, pc, coll, calls, prev>>

\* ------------------------------------------------ async execution (stream)
\* A loop that keeps the latest match and reads the stream to its end, and
\* that folds with the accumulator on the right.
AsyncConsumeToEnd(r, task, item) ==
    LET value == KeyPathGet(item)
        hit == r.op = "find" /\ ApplyPred(r.predicate, value)
    IN [task EXCEPT
          !.st = "run",
          !.pos = task.pos + 1,
          !.res = CASE r.op = "map" -> Append(task.res, ApplyMap(r.f, value))
                    [] r.op = "filter" ->
                         IF ApplyPred(r.predicate, value)
                         THEN Append(task.res, item) ELSE task.res
                    [] r.op = "find" -> IF hit THEN Some(item) ELSE task.res
                    [] r.op = "fold" -> ApplyFold(r.f, value, task.res)]

\* One turn of the while-let loops of AsyncKeyPathIterator (and of the map /
\* filter stream adaptors under collect): the task after the stream handed
\* over item.
AsyncConsume(r, task, item) ==
    LET value == KeyPathGet(item)
        hit == r.op = "find" /\ ApplyPred(r.predicate, value)
    IN [task EXCEPT
          !.st = IF hit THEN "done" ELSE "run",
          !.pos = task.pos + 1,
          !.res = CASE r.op = "map" -> Append(task.res, ApplyMap(r.f, value))
                    [] r.op = "filter" ->
                         IF ApplyPred(r.predicate, value)
                         THEN Append(task.res, item) ELSE task.res
                    [] r.op = "find" -> IF hit THEN Some(item) ELSE task.res
                    [] r.op = "fold" -> ApplyFold(r.f, task.res, value)]

\* stream::iter(collection): each poll of the stream hands over the next
\* element in index order, or None at the end.
AsyncNext ==
    /\ pc = "run"
    /\ req.api = "async"
    /\ LET t == Root(req)
           task == tasks[t]
       IN /\ task.st \in {"ready", "run"}
          /\ IF task.pos = t[2]
             THEN tasks' = [tasks EXCEPT ![t].st = "done"]
             ELSE tasks' = [tasks EXCEPT ![t] =
                               AsyncConsume(req, task, req.collection[task.pos])]
    /\ UNCHANGED <<req, found, out, pc, coll, calls, prev>>

\* ------------------------------------------- sequential loops, turn by turn
\* A find loop that remembers its first match and reads on to the end.
ScanConsumeToEnd(r, task) ==
    LET i == task.pos
        item == r.collection[i]
        absent == \/ KeyPathsGet(item) = None
                  \/ r.op = "zip" /\ KeyPathsGet(r.other[i]) = None
        value == KeyPathsGet(item)[1]
    IN IF absent
       THEN [task EXCEPT !.st = "done", !.pos = i + 1, !.panic = Some(i), !.fails = 1]
       ELSE CASE r.op = "find" ->
                   IF ApplyPred(r.predicate, value) /\ task.res = None
                   THEN [task EXCEPT !.st = "run", !.pos = i + 1, !.res = Some(item)]
                   ELSE [task EXCEPT !.st = "run", !.pos = i + 1]
              [] r.op = "zip" ->
                   [task EXCEPT !.st = "run", !.pos = i + 1,
                                !.res = Append(@, ApplyZip(r.f, value,
                                                           KeyPathsGet(r.other[i])[1]))]
              [] r.op = "rolling" ->
                   [task EXCEPT !.st = "pushed", !.pos = i + 1,
                                !.res = [window |-> Append(@.window, value),
                                         result |-> @.result]]

\* A zip loop that hands the two values to f in the opposite order.
ScanConsumeSwapped(r, task) ==
    LET i == task.pos
        item == r.collection[i]
        absent == \/ KeyPathsGet(item) = None
                  \/ r.op = "zip" /\ KeyPathsGet(r.other[i]) = None
        value == KeyPathsGet(item)[1]
    IN IF absent
       THEN [task EXCEPT !.st = "done", !.pos = i + 1, !.panic = Some(i), !.fails = 1]
       ELSE CASE r.op = "find" ->
                   IF ApplyPred(r.predicate, value)
                   THEN [task EXCEPT !.st = "done", !.pos = i + 1, !.res = Some(item)]
                   ELSE [task EXCEPT !.st = "run", !.pos = i + 1]
              [] r.op = "zip" ->
                   [task EXCEPT !.st = "run", !.pos = i + 1,
                                !.res = Append(@, ApplyZip(r.f, KeyPathsGet(r.other[i])[1],
                                                           value))]
              [] r.op = "rolling" ->
                   [task EXCEPT !.st = "pushed", !.pos = i + 1,
                                !.res = [window |-> Append(@.window, value),
                                         result |-> @.result]]

\* One turn of the for loops of find_by_keypath and zip_with_keypath (of
\* higher_order.rs and, with the unwrap, of collections.rs), and the first half
\* of a turn of rolling_by_keypath: the read and window.push(value).  pos
\* counts the elements the loop has read.
ScanConsume(r, task) ==
    LET i == task.pos
        item == r.collection[i]
        absent == \/ KeyPathsGet(item) = None
                  \/ r.op = "zip" /\ KeyPathsGet(r.other[i]) = None
        value == KeyPathsGet(item)[1]
    IN IF absent
       THEN [task EXCEPT !.st = "done", !.pos = i + 1, !.panic = Some(i), !.fails = 1]
       ELSE CASE r.op = "find" ->
                   IF ApplyPred(r.predicate, value)
                   THEN [task EXCEPT !.st = "done", !.pos = i + 1, !.res = Some(item)]
                   ELSE [task EXCEPT !.st = "run", !.pos = i + 1]
              [] r.op = "zip" ->
                   [task EXCEPT !.st = "run", !.pos = i + 1,
                                !.res = Append(@, ApplyZip(r.f, value,
                                                           KeyPathsGet(r.other[i])[1]))]
              [] r.op = "rolling" ->
                   [task EXCEPT !.st = "pushed", !.pos = i + 1,
                                !.res = [window |-> Append(@.window, value),
                                         result |-> @.result]]

\* An emit that leaves the oldest value in the window.
ScanEmitKeep(r, task) ==
    IF Len(task.res.window) = r.window_size
    THEN [task EXCEPT !.st = "run",
                      !.res = [window |-> @.window,
                               result |-> Append(@.result, ApplyAgg(r.f, @.window))]]
    ELSE [task EXCEPT !.st = "run"]

\* The second half of a turn of rolling_by_keypath:
\* if window.len() == window_size { result.push(f(&window)); window.remove(0); }
ScanEmit(r, task) ==
    IF Len(task.res.window) = r.window_size
    THEN [task EXCEPT !.st = "run",
                      !.res = [window |-> Tail(@.window),
                               result |-> Append(@.result, ApplyAgg(r.f, @.window))]]
    ELSE [task EXCEPT !.st = "run"]

ScanNext ==
    /\ pc = "run"
    /\ req.api \in ScanApis
    /\ LET t == Root(req)
           task == tasks[t]
       IN /\ task.st \in {"ready", "run", "pushed"}
          /\ tasks' = [tasks EXCEPT ![t] =
                          IF task.st = "pushed" THEN ScanEmit(req, task)
                          ELSE IF task.pos = t[2] THEN [task EXCEPT !.st = "done"]
                          ELSE ScanConsume(req, task)]
    /\ UNCHANGED <<req, found, out, pc, coll, calls, prev>>

\* The root task has ended: the call returns Ok(result), or the panic unwinds
\* into the caller.
Return ==
    /\ pc = "run"
    /\ tasks[Root(req)].st = "done"
    /\ out' = IF tasks[Root(req)].panic # None
              THEN Panic(tasks[Root(req)].panic[1])
              ELSE Ok(Finalize(req, tasks[Root(req)].res))
    /\ coll' \in CallerAfter(req, out')
    /\ pc' = "done"
    /\ UNCHANGED <<req, tasks, found, calls, prev>>

Next ==
    \/ Call
    \/ GetAtKeypath
    \/ When
    \/ ReadComposed
    \/ ChainFilter
    \/ ChainTake
    \/ ChainSkip
    \/ ChainRev
    \/ CreatePool
    \/ ParChunksZero
    \/ \E t \in DOMAIN tasks : Split(t)
    \/ \E t \in DOMAIN tasks : Step(t)
    \/ \E t \in DOMAIN tasks : Join(t)
    \/ AsyncNext
    \/ ScanNext
    \/ Return

Spec == Init /\ [][Next]_vars

\* ------------------------------------------------------ the same call twice
\* let result1 = f(&products, ..); let result2 = f(&products, ..): once the
\* first call has returned (or panicked), the caller makes the same call
\* again, with an equal collection and the same accessor and closures.  The
\* thread pool is left out (the threads the system can spawn are not an input
\* of the call), and so is a chain, whose methods consume it.
CallAgain ==
    /\ pc = "done"
    /\ prev = Pending
    /\ ~(req.api = "pool" /\ req.op = "create")
    /\ ~(req.api = "chain" /\ req.op = "new")
    /\ prev' = out
    /\ out' = Pending
    /\ tasks' = IF Engine(req) THEN (Root(req) :> NewTask(req, 1)) ELSE NoTasks
    /\ found' = FALSE
    /\ pc' = IF Engine(req) THEN "run" ELSE "call"
    /\ coll' = req.collection
    /\ calls' = <<>>
    /\ UNCHANGED req

NextTwice ==
    \/ Next
    \/ CallAgain

SpecTwice == Init /\ [][NextTwice]_vars

\* ------------------------------------------------------------- properties
\* The same request made of another api.
Under(api) == [req EXCEPT !.api = api]

\* Two outcomes agree: both return the same value, or both panic.
SameOutcome(a, b) == a.tag = b.tag /\ (a.tag = "Ok" => a.val = b.val)

Returned == pc = "done"

RootTask == tasks[Root(req)]

\* C1: for an accessor that is present on every element (the only kind the
\* sequential and the async functions take), map and filter return the same
\* sequence from par_map_keypath / par_filter_by_keypath and from
\* map_keypath_async / filter_by_keypath_async as from map_keypath_collection /
\* filter_by_keypath, however the tasks were split and in whatever order the
\* workers ended.
C1_MapFilterSameUnderEveryStrategy ==
    (/\ Returned
     /\ req.api \in {"par", "async"}
     /\ req.op \in {"map", "filter"}
     /\ AllPresent(req.collection))
    => out = SequentialCall(Under("higher_order"))

\* C1 witness: a parallel filter over a full-length collection that kept some
\* elements and dropped others, run as several leaves of which a later one
\* ended before an earlier one.
C1_Witness ==
    /\ Returned
    /\ req.api = "par" /\ req.op = "filter"
    /\ Len(req.collection) = MaxLen
    /\ AllPresent(req.collection)
    /\ RootTask.leaves >= 2 /\ RootTask.early
    /\ out.tag = "Ok"
    /\ Len(out.val) >= 2 /\ Len(out.val) < MaxLen

\* C2: par_find_by_keypath returns what find_by_keypath returns, the element
\* of lowest index that satisfies the predicate, in every interleaving of the
\* workers.
C2_ParFindReturnsFirstMatch ==
    (/\ Returned
     /\ req.api = "par" /\ req.op = "find"
     /\ AllPresent(req.collection))
    => out = SequentialCall(Under("higher_order"))

\* C3: for an associative and commutative f, every init and every split,
\* par_fold_keypath, and par_reduce_keypath_work_stealing for every
\* chunk_size >= 1, return the value of the sequential left fold
\* fold_keypath(collection, keypath, init, f).
C3_ParFoldEqualsSequentialFold ==
    (/\ Returned
     /\ \/ req.api = "par" /\ req.op = "fold"
        \/ req.api = "ws" /\ req.op = "reduce" /\ req.chunk_size >= 1
     /\ AssociativeCommutative(req.f)
     /\ AllPresent(req.collection))
    => out = fold_keypath(req.collection, req.init, req.f)

\* C4: par_count_by_keypath, par_any_by_keypath and par_all_by_keypath end as
\* count_by_keypath, any_by_keypath and all_by_keypath of the collection
\* extension end (the same value, or a panic where that one panics), whatever
\* the order in which the workers end and whichever worker stops early.
C4_ParAggregatesEqualSequential ==
    (/\ Returned
     /\ req.api = "par" /\ req.op \in {"count", "any", "all"})
    => SameOutcome(out, SequentialCall(Under("ext")))

\* C5: par_sort_by_keypath, par_partition_by_keypath, par_group_by_keypath and
\* par_collect_keypath assemble their results by index: in every interleaving
\* each ends as its sequential counterpart of the collection extension ends,
\* with the same order in the sorted vector, in both halves of the partition,
\* inside every group and in the collected vector.
C5_ParOrderSensitiveEqualSequential ==
    (/\ Returned
     /\ req.api = "par" /\ req.op \in {"sort", "partition", "group", "collect"})
    => SameOutcome(out, SequentialCall(Under("ext")))

\* C5 witness: a parallel sort of a full-length collection holding two elements
\* of equal key, split into several leaves of which a later one ended before an
\* earlier one, that returned a vector in another order than the input's.
C5_Witness ==
    /\ Returned
    /\ req.api = "par" /\ req.op = "sort"
    /\ Len(req.collection) = MaxLen
    /\ AllPresent(req.collection)
    /\ \E i, j \in 1..Len(req.collection) :
          i < j /\ req.collection[i].field = req.collection[j].field
    /\ RootTask.leaves >= 2 /\ RootTask.early
    /\ out.tag = "Ok" /\ out.val # req.collection

\* C6: find_by_keypath_async and fold_keypath_async take the stream in index
\* order and return what find_by_keypath and fold_keypath return, for every
\* collection, predicate, init and f, associative or not.
C6_AsyncFindFoldEqualSequential ==
    (/\ Returned
     /\ req.api = "async" /\ req.op \in {"find", "fold"})
    => out = SequentialCall(Under("higher_order"))

\* C6 witness: an async fold with the subtraction, which is neither associative
\* nor commutative, over a full-length collection whose values are not all
\* zero, that has returned.
C6_Witness ==
    /\ Returned
    /\ req.api = "async" /\ req.op = "fold" /\ req.f = "sub"
    /\ Len(req.collection) = MaxLen
    /\ \E i \in 1..Len(req.collection) : KeyPathGet(req.collection[i]) # 0
    /\ out.tag = "Ok"

\* C7: when the read of some element is absent, the call returns
\* Err(InvalidAccess): the iterator's find, fold and collect and the
\* collection's group and partition never return Ok with a result computed from
\* the elements that were present.
C7_AbsentReadIsInvalidAccess ==
    (/\ Returned
     /\ req.api \in {"iter", "coll"}
     /\ req.op \in {"find", "fold", "collect", "group", "partition"}
     /\ ~AllPresent(req.collection))
    => (out.tag = "Err" /\ out.val = "InvalidAccess")

\* C8: every operation of the sequential, collection-extension, chain and
\* parallel apis ends by returning Ok or an Err of the six-variant KeyPathError,
\* never by panicking, also for a collection with an absent read.
C8_NoOperationPanics ==
    Returned =>
        \/ out.tag = "Ok"
        \/ out.tag = "Err" /\ out.val \in KeyPathErrorVariants

\* C9: when the reads of two or more elements taken by different workers fail
\* under par_map_keypath, directly or through execute_on_pool, the caller sees
\* the failure of the lowest index in every interleaving, whichever worker
\* failed first.
C9_LowestIndexFailureSelected ==
    (/\ Returned
     /\ req.api \in {"par", "pool"} /\ req.op = "map"
     /\ ~AllPresent(req.collection))
    => out = Panic(FirstAbsent(req.collection))

\* C9 witness: a parallel map in which two leaves failed, the one of higher
\* index before the one of lower index had ended.
C9_Witness ==
    /\ Returned
    /\ req.api \in {"par", "pool"} /\ req.op = "map"
    /\ RootTask.fails >= 2 /\ RootTask.early
    /\ out.tag = "Panic"

\* C10: create_keypath_thread_pool(0) returns Err(ParallelError); Ok(pool) is
\* returned only for a pool of the requested, positive number of threads.
C10_ZeroThreadsIsParallelError ==
    (/\ Returned
     /\ req.api = "pool" /\ req.op = "create"
     /\ req.num_threads = 0)
    => (out.tag = "Err" /\ out.val = "ParallelError")

\* A call of the sequential function (api, op) has returned.
Sequential(api, op) == Returned /\ req.api = api /\ req.op = op

\* C11: map_keypath_collection returns a sequence as long as the input whose
\* i-th element is f of the accessor value of the i-th input element, the
\* empty collection included.
C11_MapLengthAndElements ==
    Sequential("higher_order", "map") =>
        /\ out.tag = "Ok"
        /\ Len(out.val) = Len(req.collection)
        /\ \A i \in 1..Len(req.collection) :
              out.val[i] = ApplyMap(req.f, KeyPathGet(req.collection[i]))

\* C11 witness: a map over a full-length collection whose first and last
\* values differ has returned.
C11_Witness ==
    /\ Sequential("higher_order", "map")
    /\ Len(req.collection) = MaxLen
    /\ KeyPathGet(req.collection[1]) # KeyPathGet(req.collection[MaxLen])
    /\ out.tag = "Ok"

\* C12: filter_by_keypath returns exactly the elements whose accessor value
\* satisfies the predicate, in their original relative order: a subsequence of
\* the input, never longer than it, and empty for the empty collection.
C12_FilterStableSubsequence ==
    Sequential("higher_order", "filter") =>
        /\ out.tag = "Ok"
        /\ Len(out.val) <= Len(req.collection)
        /\ \A k \in 1..Len(out.val) :
              /\ out.val[k].name \in 1..Len(req.collection)
              /\ out.val[k] = req.collection[out.val[k].name]
        /\ \A k \in 1..(Len(out.val) - 1) : out.val[k].name < out.val[k + 1].name
        /\ {out.val[k].name : k \in 1..Len(out.val)} =
              {i \in 1..Len(req.collection) :
                  ApplyPred(req.predicate, KeyPathGet(req.collection[i]))}

\* C12 witness: a filter of a full-length collection that kept at least two
\* elements and dropped one lying before a kept one.
C12_Witness ==
    /\ Sequential("higher_order", "filter")
    /\ Len(req.collection) = MaxLen
    /\ out.tag = "Ok"
    /\ Len(out.val) >= 2 /\ Len(out.val) < MaxLen
    /\ out.val[Len(out.val)].name = MaxLen

\* The predicate holds of the value of element i (which is present).
Satisfies(i) ==
    /\ KeyPathsGet(req.collection[i]) # None
    /\ ApplyPred(req.predicate, KeyPathsGet(req.collection[i])[1])

\* C13: find_by_keypath of higher_order.rs and of KeyPathsCollectionExt returns
\* the element of lowest index whose value satisfies the predicate, or None
\* when no element does, and stops at the first match: no element after the
\* returned one is read, so the predicate is never evaluated on it.
C13_FindFirstMatchShortCircuit ==
    (/\ Returned
     /\ req.api \in ScanApis /\ req.op = "find"
     /\ out.tag = "Ok")
    => /\ out = SequentialCall(req)
       /\ out.val = None =>
             /\ \A i \in 1..Len(req.collection) : ~Satisfies(i)
             /\ RootTask.pos = Len(req.collection) + 1
       /\ out.val # None =>
             /\ out.val[1].name \in 1..Len(req.collection)
             /\ out.val[1] = req.collection[out.val[1].name]
             /\ Satisfies(out.val[1].name)
             /\ \A j \in 1..(out.val[1].name - 1) : ~Satisfies(j)
             /\ RootTask.pos = out.val[1].name + 1

\* C13 witness: a find over a full-length collection returned its second
\* element although the third one satisfies the predicate as well.
C13_Witness ==
    /\ Returned
    /\ req.api \in ScanApis /\ req.op = "find"
    /\ Len(req.collection) = MaxLen
    /\ out.tag = "Ok" /\ out.val # None
    /\ out.val[1].name = 2
    /\ Satisfies(3)

\* The accumulators of the left fold: acc_0 = init and
\* acc_n = f(acc_(n-1), value of element n).
RECURSIVE Acc(_)
Acc(n) ==
    IF n = 0 THEN req.init
    ELSE ApplyFold(req.f, Acc(n - 1), KeyPathsGet(req.collection[n])[1])

\* The same recurrence with the elements taken in the opposite order.
RECURSIVE AccFromLast(_)
AccFromLast(n) ==
    IF n = 0 THEN req.init
    ELSE ApplyFold(req.f, AccFromLast(n - 1),
                   KeyPathsGet(req.collection[Len(req.collection) + 1 - n])[1])

\* C14: fold_keypath of higher_order.rs and of KeyPathsChain is the left fold in
\* index order: it returns acc_len where acc_0 = init and
\* acc_(i+1) = f(acc_i, value of coll[i]); the empty collection gives init.
C14_FoldIsLeftFold ==
    (/\ Returned
     /\ req.api \in {"higher_order", "chain"} /\ req.op = "fold"
     /\ out.tag = "Ok")
    => /\ AllPresent(req.collection)
       /\ out.val = Acc(Len(req.collection))
       /\ req.collection = <<>> => out.val = req.init

\* C14 witness: a fold with a non-commutative f over a full-length collection
\* returned a value that the same elements in the opposite order do not give.
C14_Witness ==
    /\ Returned
    /\ req.api \in {"higher_order", "chain"} /\ req.op = "fold"
    /\ Len(req.collection) = MaxLen
    /\ ~AssociativeCommutative(req.f)
    /\ out.tag = "Ok"
    /\ out.val # AccFromLast(Len(req.collection))

\* The source indices of the elements of a result sequence.
Names(seq) == {seq[k].name : k \in 1..Len(seq)}

\* seq holds elements of the input collection in their original relative order.
InOriginalOrder(seq) ==
    /\ \A k \in 1..Len(seq) :
          /\ seq[k].name \in 1..Len(req.collection)
          /\ seq[k] = req.collection[seq[k].name]
    /\ \A k \in 1..(Len(seq) - 1) : seq[k].name < seq[k + 1].name

\* C15: every partition_by_keypath (higher_order.rs, KeyPathsCollectionExt,
\* KeyPathsCollection) returns (matches, non_matches) whose lengths add up to
\* the input's length, each half in the original relative order and every
\* input element in exactly one half.
C15_PartitionCoversInput ==
    (/\ Returned
     /\ req.api \in {"higher_order", "ext", "coll"} /\ req.op = "partition"
     /\ out.tag = "Ok")
    => /\ Len(out.val[1]) + Len(out.val[2]) = Len(req.collection)
       /\ InOriginalOrder(out.val[1]) /\ InOriginalOrder(out.val[2])
       /\ Names(out.val[1]) \cap Names(out.val[2]) = {}
       /\ Names(out.val[1]) \cup Names(out.val[2]) = 1..Len(req.collection)
       /\ \A i \in Names(out.val[1]) : Satisfies(i)
       /\ \A i \in Names(out.val[2]) : ~Satisfies(i)

\* The sum of the lengths of the buckets of a key-to-bucket mapping.
RECURSIVE BucketTotal(_, _)
BucketTotal(groups, keys) ==
    IF keys = {} THEN 0
    ELSE LET k == CHOOSE x \in keys : TRUE
         IN Len(groups[k]) + BucketTotal(groups, keys \ {k})

\* C16: every group_by_keypath (higher_order.rs, KeyPathsCollectionExt,
\* KeyPathsCollection) returns a mapping in which each input element sits in
\* the bucket of key_fn(its value) and in no other, each bucket is in the
\* original relative order, no bucket is empty, and the buckets together hold
\* the input collection, element for element.
C16_GroupCoversInput ==
    (/\ Returned
     /\ req.api \in {"higher_order", "ext", "coll"} /\ req.op = "group"
     /\ out.tag = "Ok")
    => /\ \A k \in DOMAIN out.val :
             /\ out.val[k] # <<>>
             /\ InOriginalOrder(out.val[k])
             /\ \A i \in Names(out.val[k]) :
                   /\ KeyPathsGet(req.collection[i]) # None
                   /\ k = ApplyKey(req.f, KeyPathsGet(req.collection[i])[1])
       /\ \A i \in 1..Len(req.collection) : \E k \in DOMAIN out.val : i \in Names(out.val[k])
       /\ BucketTotal(out.val, DOMAIN out.val) = Len(req.collection)

\* seq is ordered by the comparison of the request.
Ordered(seq) ==
    \A k \in 1..(Len(seq) - 1) :
        Compare(req.f, KeyPathGet(seq[k]), KeyPathGet(seq[k + 1])) <= 0

\* C17: sort_by_keypath is a stable sort on the field values: the slice it
\* leaves is a permutation of the input ordered by compare, elements whose
\* values compare Equal keep their original relative order, an already sorted
\* input is left as it was, and sorting the result again changes nothing.
C17_SortStableAndIdempotent ==
    Sequential("higher_order", "sort") =>
        /\ out.tag = "Ok"
        /\ Len(out.val) = Len(req.collection)
        /\ Names(out.val) = 1..Len(req.collection)
        /\ \A k \in 1..Len(out.val) : out.val[k] = req.collection[out.val[k].name]
        /\ Ordered(out.val)
        /\ \A k, l \in 1..Len(out.val) :
              (/\ k < l
               /\ Compare(req.f, KeyPathGet(out.val[k]), KeyPathGet(out.val[l])) = 0)
              => out.val[k].name < out.val[l].name
        /\ Ordered(req.collection) => out.val = req.collection
        /\ sort_by_keypath(out.val, req.f) = out

\* C17 witness: a sort of a full-length collection that was not in order and
\* holds two elements of equal value has returned.
C17_Witness ==
    /\ Sequential("higher_order", "sort")
    /\ Len(req.collection) = MaxLen
    /\ ~Ordered(req.collection)
    /\ \E i, j \in 1..MaxLen :
          i < j /\ KeyPathGet(req.collection[i]) = KeyPathGet(req.collection[j])
    /\ out.tag = "Ok" /\ out.val # req.collection

MinLen == Min(Len(req.collection), Len(req.other))

\* C18: zip_with_keypath (higher_order.rs and KeyPathsCollectionExt) returns
\* min(len(coll1), len(coll2)) results, the i-th being f(value of coll1[i],
\* value of coll2[i]); the elements of the longer collection beyond that length
\* are never read, so what they hold has no effect on the call.
C18_ZipPairsByIndexUpToMin ==
    (/\ Returned
     /\ req.api \in ScanApis /\ req.op = "zip")
    => /\ RootTask.pos <= MinLen + 1
       /\ (\A i \in 1..MinLen : /\ KeyPathsGet(req.collection[i]) # None
                                /\ KeyPathsGet(req.other[i]) # None)
             => out.tag = "Ok"
       /\ out.tag = "Ok" =>
             /\ out = SequentialCall(req)
             /\ Len(out.val) = MinLen
             /\ \A i \in 1..MinLen :
                   out.val[i] = ApplyZip(req.f, KeyPathsGet(req.collection[i])[1],
                                         KeyPathsGet(req.other[i])[1])

\* C18 witness: a zip of a full-length collection with a shorter one has
\* returned its results although the surplus element has no value, and the
\* pairs are not all of equal values.
C18_Witness ==
    /\ Returned
    /\ req.api = "ext" /\ req.op = "zip"
    /\ Len(req.collection) = MaxLen /\ Len(req.other) = MaxLen - 1
    /\ KeyPathsGet(req.collection[MaxLen]) = None
    /\ out.tag = "Ok"
    /\ \E i \in 1..Len(out.val) : out.val[i] # 0

\* The values of the window_size elements from element i on.
ValuesFrom(i, window_size) ==
    [k \in 1..window_size |-> KeyPathsGet(req.collection[i + k - 1])[1]]

\* C19: window_by_keypath with 1 <= w <= len(coll) returns len(coll) - w + 1
\* results, the i-th being f over the values of elements i..i+w-1 in order;
\* with w = 0 or w > len(coll), so with any w on the empty collection, it
\* returns Err(CollectionError) and no results.
C19_WindowCountAndBounds ==
    Sequential("ext", "window") =>
        LET w == req.window_size
            len == Len(req.collection)
        IN /\ (w = 0 \/ w > len) => out = Err("CollectionError")
           /\ (w >= 1 /\ w <= len /\ AllPresent(req.collection)) => out.tag = "Ok"
           /\ (w >= 1 /\ w <= len) => out.tag # "Err"
           /\ out.tag = "Ok" =>
                 /\ Len(out.val) = len - w + 1
                 /\ \A i \in 1..(len - w + 1) :
                       out.val[i] = ApplyAgg(req.f, ValuesFrom(i, w))

\* C19 witness: a window of two over a full-length collection of values that
\* are not all equal has returned more than one result.
C19_Witness ==
    /\ Sequential("ext", "window")
    /\ Len(req.collection) = MaxLen /\ req.window_size = 2
    /\ req.f = "to_vec"
    /\ out.tag = "Ok" /\ Len(out.val) = MaxLen - 1
    /\ out.val[1] # out.val[2]

Rolling == req.api = "ext" /\ req.op = "rolling"

\* The number of values rolling_by_keypath has pushed so far (the read that
\* panicked pushed nothing).
Pushed == IF RootTask.panic # None THEN RootTask.pos - 2 ELSE RootTask.pos - 1

Max0(n) == IF n > 0 THEN n ELSE 0

\* C20: rolling_by_keypath keeps a FIFO buffer of the most recent values: at
\* every step the buffer holds at most w values, one aggregate has been
\* emitted for each time the buffer held w values, the oldest value is evicted
\* right after the emission, and with w = 0 the call returns
\* Err(CollectionError) without having read an element.
C20_RollingBufferFifo ==
    Rolling =>
        /\ (Returned /\ req.window_size = 0) =>
              (out = Err("CollectionError") /\ tasks = NoTasks)
        /\ (Returned /\ out.tag = "Ok") => out = SequentialCall(req)
        /\ tasks # NoTasks =>
              LET w == req.window_size
                  window == RootTask.res.window
                  result == RootTask.res.result
                  full == IF RootTask.st = "pushed" THEN w ELSE w - 1
              IN /\ Len(window) <= w
                 /\ Len(window) = Min(Pushed, full)
                 /\ window = [k \in 1..Len(window) |->
                                KeyPathsGet(req.collection[Pushed - Len(window) + k])[1]]
                 /\ Len(result) = Max0(Pushed - full)
                 /\ \A k \in 1..Len(result) : result[k] = ApplyAgg(req.f, ValuesFrom(k, w))

\* C20 witness: the buffer of a rolling window of two is full for the second
\* time, after one aggregate was emitted and the oldest value evicted.
C20_Witness ==
    /\ Rolling
    /\ tasks # NoTasks
    /\ req.window_size = 2
    /\ RootTask.st = "pushed"
    /\ Len(RootTask.res.window) = 2
    /\ Len(RootTask.res.result) = 1
    /\ KeyPathsGet(req.collection[1]) # KeyPathsGet(req.collection[3])

\* ---------------------------------------------------------------- C24
ReadOnlyOps ==
    {"filter", "map", "group", "partition", "collect", "find", "count", "any", "all",
     "zip", "window", "rolling"}

C26_GetAtKeypathOkIffPresent ==
    Returned /\ req.api = "operable" =>
        LET rd == KeyPathsGet(req.collection[1])
        IN /\ (rd # None) <=> (out.tag = "Ok")
           /\ rd # None => out = Ok(rd[1])
           /\ (rd = None) <=> (out = Err("InvalidAccess"))
           /\ out.tag \in {"Ok", "Err"}

\* A read of an absent field has returned its error.
C26_Witness ==
    /\ Returned /\ req.api = "operable"
    /\ KeyPathsGet(req.collection[1]) = None
    /\ out = Err("InvalidAccess")

\* ---------------------------------------------------------------- C27
\* C27: for every w >= 1, a rolling_by_keypath that returns has emitted
\* max(0, len(coll) - w + 1) aggregates, the i-th over the values of elements
\* i..i+w-1, and no error; with 1 <= w <= len(coll) that is what
\* window_by_keypath returns, and with w > len(coll) it is Ok(empty) where
\* window_by_keypath returns Err(CollectionError).
C27_RollingAgainstWindow ==
    (Returned /\ Rolling /\ req.window_size >= 1) =>
        LET w == req.window_size
            len == Len(req.collection)
            window == window_by_keypath(req.collection, w, req.f)
        IN /\ out.tag # "Err"
           /\ AllPresent(req.collection) => out.tag = "Ok"
           /\ out.tag = "Ok" =>
                 /\ Len(out.val) = Max0(len - w + 1)
                 /\ \A i \in 1..Len(out.val) : out.val[i] = ApplyAgg(req.f, ValuesFrom(i, w))
                 /\ w <= len => out = window
                 /\ w > len => (out = Ok(<<>>) /\ window = Err("CollectionError"))

\* A rolling window longer than a non-empty collection has returned Ok(empty).
C27_Witness ==
    /\ Returned /\ Rolling
    /\ Len(req.collection) >= 1
    /\ req.window_size > Len(req.collection)
    /\ out = Ok(<<>>)

\* ---------------------------------------------------------------- C29
\* C29: for every chunk_size >= 1, however the chunks were split among the
\* workers and in whatever order they ended, par_map_keypath_work_stealing
\* returns what the sequential map returns (the mapped chunks concatenated in
\* source order, whatever the chunk_size) and never an Err; with chunk_size 0
\* the call neither returns Ok nor reports a typed error.
C29_WorkStealingMapEqualsSequential ==
    (Returned /\ req.api = "ws" /\ req.op = "map") =>
        /\ req.chunk_size >= 1 =>
              /\ SameOutcome(out, Iter_map_keypath(req.collection, req.f))
              /\ AllPresent(req.collection) =>
                    out = map_keypath_collection(req.collection, req.f)
              /\ out.tag # "Err"
        /\ req.chunk_size = 0 => out.tag \notin {"Ok", "Err"}

\* A work-stealing map over a full-length collection in chunks of two ran as
\* two leaves, the leaf of the last chunk ended before the leaf of the first,
\* and the values came back in source order.
C29_Witness ==
    /\ Returned /\ req.api = "ws" /\ req.op = "map"
    /\ req.chunk_size = MaxChunk /\ Len(req.collection) = MaxLen
    /\ RootTask.leaves >= 2 /\ RootTask.early
    /\ out.tag = "Ok"
    /\ out.val[1] # out.val[MaxLen]

\* --------------------------------------------------------- C23 and C28
Conditional == Returned /\ req.api = "composable"

\* Element i of the request has a value, and the value meets the condition of
\* when_keypath, or fails the condition of unless_keypath.
Met(i) ==
    /\ KeyPathsGet(req.collection[i]) # None
    /\ ApplyPred(req.predicate, KeyPathsGet(req.collection[i])[1]) = (req.op = "when")

MetElements == SelectSeq(req.collection, LAMBDA item : Met(item.name))

\* The elements handed to the operation, over all of its invocations.
RECURSIVE HandedFrom(_)
HandedFrom(k) == IF k > Len(calls) THEN <<>> ELSE calls[k].arg \o HandedFrom(k + 1)

\* C23: when_keypath applies the operation only when the condition is met:
\* the elements handed to the operation are exactly the elements whose value
\* satisfies the condition, and the result is the operation over them (stated
\* for the collections whose every read is present).
C23_WhenHandsExactlyTheMatching ==
    (Conditional /\ req.op = "when" /\ AllPresent(req.collection)) =>
        /\ out.tag = "Ok"
        /\ HandedFrom(1) = MetElements
        /\ out.val = ApplyOperation(req.f, MetElements)

SubMultiset(seq) ==
    /\ \A i \in 1..Len(seq) :
          /\ seq[i].name \in 1..Len(req.collection)
          /\ seq[i] = req.collection[seq[i].name]
    /\ \A i, j \in 1..Len(seq) : seq[i].name = seq[j].name => i = j

\* The collections the next step of the chain can produce.
AfterOneStep(chain) ==
    {Chain_take(chain, n) : n \in 0..MaxTake}
        \cup {Chain_skip(chain, n) : n \in 0..MaxTake}
        \cup {Chain_rev(chain)}
        \cup {Chain_filter_by_keypath(chain, p).val : p \in {q \in Preds : AllPresent(chain)}}

\* C30: after any sequence of filter_by_keypath, take, skip and rev steps the
\* chain's collection is a sub-multiset of the initial collection and no step
\* makes it longer; take(n) then collect and skip(n) then collect give a
\* prefix and a suffix whose concatenation is the chain's collection; and
\* rev applied twice gives back the order the chain had.
C30_ChainStepsKeepSubMultiset ==
    Chained =>
        LET chain == out.val
        IN /\ SubMultiset(chain)
           /\ Len(chain) <= Len(req.collection)
           /\ \A next \in AfterOneStep(chain) : Len(next) <= Len(chain)
           /\ \A n \in 0..MaxTake :
                 Chain_collect(Chain_take(chain, n)) \o Chain_collect(Chain_skip(chain, n))
                    = Chain_collect(chain)
           /\ Chain_rev(Chain_rev(chain)) = chain

\* A chain over a full-length collection holds two of its elements, the later
\* one first.
C30_Witness ==
    /\ Chained
    /\ Len(req.collection) = MaxLen
    /\ Len(out.val) = 2
    /\ out.val[1].name > out.val[2].name

\* ---------------------------------------------------------------- C25
\* C25: operations are deterministic: the second of two calls of the same
\* operation with an equal collection, the same accessor and the same pure
\* closures returns what the first returned, and so does a repeated accessor
\* read (stated for the collections whose every read is present).
C25_TwoCallsReturnEqual ==
    (Returned /\ prev # Pending /\ AllPresent(req.collection)) => out = prev

\* --------------------------------------------------------- C21 and C22
Composed == Returned /\ req.api = "keypath"

IsTriple(keypath) ==
    /\ ~IsLeaf(keypath)
    /\ ~IsLeaf(keypath.first) \/ ~IsLeaf(keypath.next)

\* (p.then(q)).then(r) for p.then(q.then(r)), and the other way round.
Regrouped(keypath) ==
    IF ~IsLeaf(keypath.first)
    THEN Then(keypath.first.first, Then(keypath.first.next, keypath.next))
    ELSE Then(Then(keypath.first, keypath.next.first), keypath.next.next)

\* C21: composition is associative: (p.then(q)).then(r) and
\* p.then(q.then(r)) read the same result from every source, invoking the
\* same segments on the same values, also when the read of p or of q is
\* absent.
C21_ThenIsAssociative ==
    (Composed /\ IsTriple(req.keypath)) =>
        LET other == Get(Regrouped(req.keypath), req.source)
        IN /\ out = Ok(other.value)
           /\ calls = other.calls

\* (p.then(q)).then(r) was read where p is present and q is absent.
C21_Witness ==
    /\ Composed /\ IsTriple(req.keypath) /\ ~IsLeaf(req.keypath.first)
    /\ out = Ok(None)
    /\ Len(calls) = 2

\* The segments of a composed accessor, in the order of the path.
RECURSIVE SegmentsOf(_)
SegmentsOf(keypath) ==
    IF IsLeaf(keypath) THEN <<keypath.segment>>
    ELSE SegmentsOf(keypath.first) \o SegmentsOf(keypath.next)

\* The value the k-th segment of the request is applied to: the source for
\* the first, and None once a segment before it was absent.
RECURSIVE Before(_)
Before(k) ==
    IF k = 1 THEN Some(req.source)
    ELSE IF Before(k - 1) = None THEN None
    ELSE SegmentGet(SegmentsOf(req.keypath)[k - 1], Before(k - 1)[1])

\* C22: absence propagates through composition without a fault: the composed
\* read returns not-found as soon as the read of a segment is not found, the
\* segments after it are not invoked, and otherwise each segment is applied
\* to the value read by the one before it, so that the read of
\* first.then(next) is next.get of the value read by first.
C22_AbsencePropagates ==
    Composed =>
        LET n == Len(SegmentsOf(req.keypath))
            invoked == {k \in 1..n : Before(k) # None}
        IN /\ out = Ok(Before(n + 1))
           /\ Len(calls) = Cardinality(invoked)
           /\ \A k \in invoked :
                 calls[k] = CallOf(SegmentsOf(req.keypath)[k], Before(k)[1])
           /\ ~IsLeaf(req.keypath) =>
                 LET a == Get(req.keypath.first, req.source)
                 IN IF a.value = None THEN out = Ok(None)
                    ELSE out = Ok(Get(req.keypath.next, a.value[1]).value)

\* The first of three segments was absent: the read returned not-found after
\* invoking that segment only.
C22_Witness ==
    /\ Composed /\ IsTriple(req.keypath)
    /\ out = Ok(None)
    /\ Len(calls) = 1

====
